---- MODULE Spec2Model ----
(***************************************************************************)
(* aether-db: the expiring key-value table with its background reaper      *)
(* (crates/db/src/db/table.rs) and the per-connection websocket engine     *)
(* with the broadcast bus (crates/db/src/ws.rs, crates/db/src/db/mod.rs).  *)
(***************************************************************************)
EXTENDS Integers, Sequences, FiniteSets, TLC

\* ------------------------------------------------------------------------
\* Bounds of the model
\* ------------------------------------------------------------------------
\* The clock runs over 0..MaxTime; absolute expiries are drawn from it.
MaxTime == 2
\* At most MaxSets calls of Table::set are started in one behaviour.
MaxSets == 3

Keys == {"k1", "k2"}
DataValues == {"a", "b"}
Setters == {"s1", "s2"}

\* Option::None of `expiry: Option<OffsetDateTime>`.
NoExpiry == -1

Instants == 0..MaxTime
Expiries == Instants \cup {NoExpiry}
\* aether_common::db::Value
Values == [data : DataValues, expiry : Expiries]

VARIABLES
    now,            \* OffsetDateTime::now_utc()
    data,           \* Store.data : HashMap<String, Value>
    background_task,\* Store.background_task : Notify (TRUE = a stored permit)
    setter,         \* each in-flight Table::set call
    reaper,         \* the remove_expired_entries task
    got,            \* outcome of the Table::get of the step just taken
    reaped,         \* entries removed by the retain of the step just taken
    written,        \* per key, the value of the last completed insert
    calls,          \* number of Table::set calls started so far
    conn,           \* per connection: lifecycle, client id, local cache, receiver
    subscriptions,  \* Database.subscriptions : client id -> channel -> options
    broadcast_channel, \* every envelope sent on Database.broadcast_channel, in order
    command_rx,     \* per connection, the mpsc channel of decoded commands
    status_rx,      \* per connection, the mpsc channel of status messages
    out,            \* per connection, the frames given to socket_sender
    taken,          \* per connection, positions of the envelopes its recv returned
    published,      \* per envelope, when it was sent: the sending connection, the
                    \* connections whose backlog had not overflowed and those
                    \* whose filter accepted it
    received,       \* per connection, the commands its reader decoded and enqueued
    executed,       \* per connection, the commands its writer has run
    frames,         \* number of inbound frames read so far, over all connections
    wire,           \* a Command JSON on its way through serde: as read, decoded
                    \* and encoded again
    json_db         \* the JSON table's Store and its reaper: data, background_task
                    \* and the reaper's position

tvars == <<now, data, background_task, setter, reaper, got, reaped, written, calls>>
wvars == <<conn, subscriptions, broadcast_channel, command_rx, status_rx, out, taken,
          published, received, executed, frames, wire, json_db>>
vars == <<tvars, wvars>>

\* ------------------------------------------------------------------------
\* Expiring table (crates/db/src/db/table.rs)
\* ------------------------------------------------------------------------
Min(S) == CHOOSE x \in S : \A y \in S : x <= y

\* Store::next_expiration: the minimum expiry among entries that have one.
next_expiration(state) ==
    LET withExpiry == {state[k].expiry : k \in {x \in DOMAIN state : state[x].expiry # NoExpiry}}
    IN  IF withExpiry = {} THEN NoExpiry ELSE Min(withExpiry)

\* Table::set, the match on (next_expiration, value.expiry).
should_notify(next, expiry) ==
    IF next = NoExpiry
    THEN expiry # NoExpiry
    ELSE IF expiry = NoExpiry THEN FALSE ELSE expiry < next

\* A variant of the insert that keeps the expiry of the entry it replaces
\* when the new value has none.
InsertMerge(state, key, value) ==
    [k \in DOMAIN state \cup {key} |->
        IF k # key THEN state[k]
        ELSE IF key \in DOMAIN state /\ value.expiry = NoExpiry
             THEN [value EXCEPT !.expiry = state[key].expiry]
             ELSE value]

\* HashMap::insert
Insert(state, key, value) ==
    [k \in DOMAIN state \cup {key} |-> IF k = key THEN value ELSE state[k]]

\* Variants of the retain predicate: one that also drops an entry expiring
\* exactly now, one that drops the entries without expiry.
KeepStrict(value, t) == value.expiry = NoExpiry \/ t < value.expiry
KeepOnlyTimed(value, t) == value.expiry # NoExpiry /\ t <= value.expiry

\* The retain predicate of Store::remove_expired_values.
Keep(value, t) == value.expiry = NoExpiry \/ t <= value.expiry

\* HashMap::retain with that predicate.
Retain(state, t) ==
    [k \in {x \in DOMAIN state : Keep(state[x], t)} |-> state[k]]

\* A variant of the duration without the max: (expiration - now).unsigned_abs().
SleepDurationAbs(expiration, t) ==
    IF expiration - t < 0 THEN t - expiration ELSE expiration - t

\* max(Duration::ZERO, expiration - now).unsigned_abs()
SleepDuration(expiration, t) ==
    IF expiration - t < 0 THEN 0 ELSE expiration - t

\* A variant of Table::get that never finds the key.
TableGetNone(state, key) == {}

\* Table::get: data.get(key).cloned(), an Option (a set of at most one).
TableGet(state, key) ==
    IF key \in DOMAIN state THEN {state[key]} ELSE {}

\* The latest OffsetDateTime there is, on the scale of the model's clock.
MaxInstant == MaxTime

\* A variant of ExpiryOf whose addition wraps around instead of failing.
ExpiryOfWrapping(t, expiration) ==
    IF expiration = NoExpiry THEN NoExpiry ELSE (t + expiration) % (MaxInstant + 1)

\* handle_socket, SetString arm: expiration.and_then(|seconds|
\* now_utc().checked_add(Duration::new(seconds as i64, 0))); checked_add is
\* None when the sum is not a representable instant.
ExpiryOf(t, expiration) ==
    IF expiration = NoExpiry THEN NoExpiry
    ELSE IF t + expiration > MaxInstant THEN NoExpiry
    ELSE t + expiration

IdleSetter == [pc |-> "idle", key |-> "k1", value |-> [data |-> "a", expiry |-> NoExpiry],
               notify |-> FALSE]
\* The reaper about to call remove_expired_values; `now`, `next` and `until`
\* are its locals, meaningful only at the program points that read them.
StartReaper == [pc |-> "remove", now |-> 0, until |-> 0, next |-> NoExpiry]

TInit ==
    /\ now = 0
    /\ data = <<>>
    /\ background_task = FALSE
    /\ setter = [s \in Setters |-> IdleSetter]
    /\ reaper = StartReaper
    /\ got = {}
    /\ reaped = {}
    /\ written = <<>>
    /\ calls = 0

\* Time passes.
Tick ==
    /\ now < MaxTime
    /\ now' = now + 1
    /\ got' = {}
    /\ reaped' = {}
    /\ UNCHANGED <<data, background_task, setter, reaper, written, calls>>
    /\ UNCHANGED wvars

\* Table::get, one step under the read lock.
Get(key) ==
    /\ got' = {[key |-> key, res |-> TableGet(data, key)]}
    /\ reaped' = {}
    /\ UNCHANGED <<now, data, background_task, setter, reaper, written, calls>>
    /\ UNCHANGED wvars

\* Table::set up to the insert: reads next_expiration under the read lock and
\* decides whether to notify.
SetBegin(s, key, value) ==
    /\ setter[s].pc = "idle"
    /\ setter' = [setter EXCEPT ![s] =
                    [pc |-> "insert", key |-> key, value |-> value,
                     notify |-> should_notify(next_expiration(data), value.expiry)]]
    /\ got' = {}
    /\ reaped' = {}
    /\ calls < MaxSets
    /\ calls' = calls + 1
    /\ UNCHANGED <<now, data, background_task, reaper, written>>
    /\ UNCHANGED wvars

\* Table::set, the insert under the write lock.
SetInsert(s) ==
    /\ setter[s].pc = "insert"
    /\ data' = Insert(data, setter[s].key, setter[s].value)
    /\ written' = Insert(written, setter[s].key, setter[s].value)
    /\ setter' = [setter EXCEPT ![s] =
                    IF setter[s].notify THEN [IdleSetter EXCEPT !.pc = "notify"] ELSE IdleSetter]
    /\ got' = {}
    /\ reaped' = {}
    /\ UNCHANGED <<now, background_task, reaper, calls>>
    /\ UNCHANGED wvars

\* Table::set, background_task.notify_one(): stores a permit, or hands it to
\* the waiting reaper (taken by ReaperNotified).
SetNotify(s) ==
    /\ setter[s].pc = "notify"
    /\ background_task' = TRUE
    /\ setter' = [setter EXCEPT ![s] = IdleSetter]
    /\ got' = {}
    /\ reaped' = {}
    /\ UNCHANGED <<now, data, reaper, written, calls>>
    /\ UNCHANGED wvars

\* Store::remove_expired_values, first half: write lock, read the clock, retain.
ReaperRemove ==
    /\ reaper.pc = "remove"
    /\ data' = Retain(data, now)
    /\ reaped' = {[key |-> k, value |-> data[k]] : k \in DOMAIN data \ DOMAIN Retain(data, now)}
    /\ reaper' = [reaper EXCEPT !.pc = "next", !.now = now]
    /\ got' = {}
    /\ UNCHANGED <<now, background_task, setter, written, calls>>
    /\ UNCHANGED wvars

\* Store::remove_expired_values, second half: next_expiration under the read
\* lock, the duration to sleep; then remove_expired_entries starts its wait.
ReaperNext ==
    /\ reaper.pc = "next"
    /\ LET next == next_expiration(data)
       IN  reaper' = IF next = NoExpiry
                     THEN [StartReaper EXCEPT !.pc = "notified"]
                     ELSE [StartReaper EXCEPT !.pc = "sleep", !.next = next,
                                              !.until = now + SleepDuration(next, reaper.now)]
    /\ got' = {}
    /\ reaped' = {}
    /\ UNCHANGED <<now, data, background_task, setter, written, calls>>
    /\ UNCHANGED wvars

\* A variant of the timer that also fires while the reaper waits in the else
\* branch, on the wake signal alone.
ReaperTimerAny ==
    /\ reaper.pc \in {"sleep", "notified"}
    /\ now >= reaper.until
    /\ reaper' = StartReaper
    /\ got' = {}
    /\ reaped' = {}
    /\ UNCHANGED <<now, data, background_task, setter, written, calls>>
    /\ UNCHANGED wvars

\* remove_expired_entries: tokio::time::sleep(instant) completes.
ReaperTimer ==
    /\ reaper.pc = "sleep"
    /\ now >= reaper.until
    /\ reaper' = StartReaper
    /\ got' = {}
    /\ reaped' = {}
    /\ UNCHANGED <<now, data, background_task, setter, written, calls>>
    /\ UNCHANGED wvars

\* A variant of the wake in which the reaper takes the permit and goes on
\* waiting as before.
ReaperNotifiedWaitsOn ==
    /\ reaper.pc \in {"sleep", "notified"}
    /\ background_task
    /\ background_task' = FALSE
    /\ reaper' = reaper
    /\ got' = {}
    /\ reaped' = {}
    /\ UNCHANGED <<now, data, setter, written, calls>>
    /\ UNCHANGED wvars

\* remove_expired_entries: background_task.notified() completes, in the select
\* or in the else branch; it consumes the permit.
ReaperNotified ==
    /\ reaper.pc \in {"sleep", "notified"}
    /\ background_task
    /\ background_task' = FALSE
    /\ reaper' = StartReaper
    /\ got' = {}
    /\ reaped' = {}
    /\ UNCHANGED <<now, data, setter, written, calls>>
    /\ UNCHANGED wvars

\* ------------------------------------------------------------------------
\* Connection engine and broadcast bus (crates/db/src/ws.rs, db/mod.rs)
\* ------------------------------------------------------------------------
\* crate::CHANNEL_SIZE, scaled down: the capacity of the command and status
\* channels and the number of envelopes the broadcast channel retains.
ChannelSize == 2
\* At most MaxFrames inbound frames are read in one behaviour.
MaxFrames == 3
\* The same, in the behaviours examined under fair scheduling.
MaxFairFrames == 2

Conns == {"c1", "c2"}
ClientIds == {"A", "B"}
\* The client id a socket presents: c1 is client A, c2 is the same client on
\* a second socket or another client.
IdsOf(c) == IF c = "c1" THEN {"A"} ELSE ClientIds
Channels == {"global", "room"}
\* The channels the clients subscribe to; "global" needs no subscription.
Rooms == Channels \ {"global"}

\* HashMap::remove
Remove(map, key) == [k \in DOMAIN map \ {key} |-> map[k]]

\* crate::db::SubscriptionOptions
SubscriptionOptions == [subscribe_to_self : BOOLEAN]

\* aether_common::Command, the broadcast commands. The payload of a
\* SendBroadcast is the number of the frame that carried it, so that every
\* envelope is told apart.
Commands ==
    [type : {"subscribe_broadcast"}, channel : Rooms, subscribe_to_self : BOOLEAN]
    \cup [type : {"unsubscribe_broadcast"}, channel : Rooms]
    \cup [type : {"send_broadcast"}, channel : Channels, message : 1..MaxFrames]

\* The expirations of a SetString, in seconds: Option<u32>.
Expirations == {NoExpiry, 1}

\* aether_common::Command, the commands on the string table.
KvCommands ==
    [type : {"set_string"}, key : Keys, value : DataValues, expiration : Expirations]
    \cup [type : {"get_string"}, key : Keys]

\* The inbound frames that carry a command.
FrameKinds == {"text", "binary"}

\* A variant of DecodeError with one text for both kinds of frame.
DecodeErrorGeneric(kind) ==
    [error |-> "Could not deserialize message", operation |-> "None"]

\* StatusMessage::Error of a frame that does not decode; operation is None.
DecodeError(kind) ==
    [error |-> IF kind = "text"
               THEN "Could not deserialize string message"
               ELSE "Could not deserialize binary message",
     operation |-> "None"]

\* Frames written to the socket.
PingFrame == [type |-> "ping", payload |-> <<1, 2, 3>>]
ClientIdFrame(id) == [type |-> "client_id", client_id |-> id]
\* Message::BroadcastMessage(message), serialized as Text.
BroadcastFrame(message) ==
    [type |-> "broadcast_message", client_id |-> message.client_id,
     channel |-> message.channel, message |-> message.message]
\* StatusMessage::Ok
StatusOk == [ok |-> TRUE]
\* Message::GetString(value), serialized as Text; value is the Option read.
GetStringFrame(value) == [type |-> "get_string", value |-> value]
\* Message::Status(status), serialized as Text.
StatusFrame(status) == [type |-> "status", status |-> status]
CloseFrame == [type |-> "close"]

\* Variants of should_send_message: without the subscription check for other
\* senders, without the reserved channel, and with self-delivery always on.
should_send_unsubscribed(client_id, message, subs) ==
    message.channel = "global"
        \/ message.client_id # client_id
        \/ (message.channel \in DOMAIN subs /\ subs[message.channel].subscribe_to_self)
should_send_no_global(client_id, message, subs) ==
    message.channel \in DOMAIN subs
        /\ (message.client_id # client_id \/ subs[message.channel].subscribe_to_self)
should_send_to_self(client_id, message, subs) ==
    message.channel = "global" \/ message.channel \in DOMAIN subs

\* should_send_message
should_send_message(client_id, message, subs) ==
    message.channel = "global"
        \/ (message.channel \in DOMAIN subs
            /\ (message.client_id # client_id
                \/ subs[message.channel].subscribe_to_self))

\* Variants of the channel and of the Registry read: a channel that hands out
\* the newest message first, and a read that forgets the stored map.
mpsc_send_front(queue, message) == <<message>> \o queue
get_subscriptions_fresh(registry, client_id) == <<>>

\* mpsc::Sender::send on a channel with room: the message goes to the back.
mpsc_send(queue, message) == Append(queue, message)

\* Database::get_subscriptions: the client's map, or the empty map.
get_subscriptions(registry, client_id) ==
    IF client_id \in DOMAIN registry THEN registry[client_id] ELSE <<>>

\* A variant of add_subscription that drops a channel already present.
add_subscription_toggle(registry, client_id, channel, options) ==
    LET map == IF client_id \in DOMAIN registry THEN registry[client_id] ELSE <<>>
    IN  IF channel \in DOMAIN map
        THEN Insert(registry, client_id, Remove(map, channel))
        ELSE Insert(registry, client_id, Insert(map, channel, options))

\* A variant of add_subscription that starts the client's map afresh.
add_subscription_replace(registry, client_id, channel, options) ==
    Insert(registry, client_id, Insert(<<>>, channel, options))

\* Database::add_subscription: entry(client_id).or_default().insert(..).
add_subscription(registry, client_id, channel, options) ==
    Insert(registry, client_id, Insert(get_subscriptions(registry, client_id), channel, options))

\* Database::remove_subscription: entry(client_id).or_default().remove(..).
remove_subscription(registry, client_id, channel) ==
    Insert(registry, client_id, Remove(get_subscriptions(registry, client_id), channel))

\* A variant of clear_subscriptions that empties the whole Registry.
clear_subscriptions_all(registry, client_id) == <<>>

\* Database::clear_subscriptions: remove(client_id).
clear_subscriptions(registry, client_id) == Remove(registry, client_id)

\* broadcast::Receiver::recv on a receiver at position next: the oldest
\* retained envelope is at position Len(bus) - ChannelSize + 1.
Lagging(bus, next) == Len(bus) - next > ChannelSize

\* `Ok(message) = broadcast_receiver.recv()`: the branch is disabled for the
\* rest of this select when the pattern does not match (Err(Lagged)).
disabled_after(lagged) == lagged

\* A connection: sink is the state of the transport as socket_sender sees
\* it; send_error records that a send of the select loop returned Err, and
\* goodbye that the send of the Close frame was attempted.
NoConn == [state |-> "idle", client_id |-> "A", subscriptions |-> <<>>,
           send_task |-> "ping", receive_task |-> "read",
           next |-> 0, disabled |-> FALSE, lagged |-> FALSE,
           sink |-> "ok", send_error |-> FALSE, goodbye |-> FALSE]

WInit ==
    /\ conn = [c \in Conns |-> NoConn]
    /\ subscriptions = <<>>
    /\ broadcast_channel = <<>>
    /\ command_rx = [c \in Conns |-> <<>>]
    /\ status_rx = [c \in Conns |-> <<>>]
    /\ out = [c \in Conns |-> <<>>]
    /\ taken = [c \in Conns |-> <<>>]
    /\ published = <<>>
    /\ received = [c \in Conns |-> <<>>]
    /\ executed = [c \in Conns |-> <<>>]
    /\ frames = 0
    /\ wire = [stage |-> "idle"]
    /\ json_db = [data |-> <<>>, background_task |-> FALSE, reaper |-> StartReaper]

Open(c) == conn[c].state = "open"
\* The tasks of connection c exist: the handler is running, or it has
\* returned and a task it aborted has not been dropped yet.
Spawned(c) == conn[c].state \in {"open", "closed"}
\* send_task is in its select loop.
Selecting(c) == Spawned(c) /\ conn[c].send_task = "select"
\* The connection's writer is in its select loop.
InSelect(c) == Open(c) /\ conn[c].send_task = "select"
\* Running: the handshake is done and neither task has ended.
Running(c) == InSelect(c) /\ conn[c].receive_task = "read"

\* A variant of the handshake that goes on after a failed send.
handshake_ignore(c, next) == next

\* socket_sender.send(frame).await: the frames the client is given.
socket_sender_send(c, frame) ==
    IF conn[c].sink = "ok" THEN Append(out[c], frame) ELSE out[c]
\* The send returned Err.
send_err(c) == conn[c].sink # "ok"
\* The handshake: `if let Err(err) = socket_sender.send(..).await { return; }`.
handshake(c, next) == IF send_err(c) THEN "done" ELSE next

\* handle_socket up to the spawns: subscribe to the bus, seed the cache.
Upgrade(c, client_id) ==
    /\ conn[c].state = "idle"
    /\ conn' = [conn EXCEPT ![c] =
                  [NoConn EXCEPT !.state = "open", !.client_id = client_id,
                                 !.subscriptions = get_subscriptions(subscriptions, client_id),
                                 !.next = Len(broadcast_channel)]]
    /\ UNCHANGED <<subscriptions, broadcast_channel, command_rx, status_rx, out, taken, published, received, executed, frames, wire, json_db>>
    /\ UNCHANGED tvars

\* send_task: the initial Ping.
WriterPing(c) ==
    /\ Spawned(c) /\ conn[c].send_task = "ping"
    /\ out' = [out EXCEPT ![c] = socket_sender_send(c, PingFrame)]
    /\ conn' = [conn EXCEPT ![c].send_task = handshake(c, "client_id")]
    /\ UNCHANGED <<subscriptions, broadcast_channel, command_rx, status_rx, taken, published, received, executed, frames, wire, json_db>>
    /\ UNCHANGED tvars

\* send_task: Message::ClientId.
WriterClientId(c) ==
    /\ Spawned(c) /\ conn[c].send_task = "client_id"
    /\ out' = [out EXCEPT ![c] = socket_sender_send(c, ClientIdFrame(conn[c].client_id))]
    /\ conn' = [conn EXCEPT ![c].send_task = handshake(c, "select")]
    /\ UNCHANGED <<subscriptions, broadcast_channel, command_rx, status_rx, taken, published, received, executed, frames, wire, json_db>>
    /\ UNCHANGED tvars

\* The receivers of the two mpsc channels live in send_task and are dropped
\* when it returns; from then on Sender::send returns Err at once.
receiver_dropped(c) == conn[c].send_task = "done"

\* command_tx.send / status_tx.send of receive_task, whose Err is only logged.
sender_send(c, queue, message) ==
    IF receiver_dropped(c) THEN queue ELSE mpsc_send(queue, message)

\* receive_task, process_command on a Text or Binary frame that decodes:
\* command_tx.send(message).await, which waits while the channel is full.
ReaderCommand(c, command, limit) ==
    /\ Spawned(c) /\ conn[c].receive_task = "read"
    /\ frames < limit
    /\ receiver_dropped(c) \/ Len(command_rx[c]) < ChannelSize
    /\ command.type = "send_broadcast" => command.message = frames + 1
    /\ frames' = frames + 1
    /\ command_rx' = [command_rx EXCEPT ![c] = sender_send(c, @, command)]
    /\ received' = [received EXCEPT ![c] = sender_send(c, @, command)]
    /\ UNCHANGED <<conn, subscriptions, broadcast_channel, status_rx, out, taken, published,
                   executed, wire, json_db>>
    /\ UNCHANGED tvars

\* receive_task, process_command on a frame that does not decode.
ReaderMalformed(c, kind, limit) ==
    /\ Spawned(c) /\ conn[c].receive_task = "read"
    /\ frames < limit
    /\ receiver_dropped(c) \/ Len(status_rx[c]) < ChannelSize
    /\ frames' = frames + 1
    /\ status_rx' = [status_rx EXCEPT ![c] = sender_send(c, @, DecodeError(kind))]
    /\ UNCHANGED <<conn, subscriptions, broadcast_channel, command_rx, out, taken, published,
                   received, executed, wire, json_db>>
    /\ UNCHANGED tvars

\* The control frames the reader is handed: WSMessage::Ping, WSMessage::Pong.
ControlKinds == {"ping", "pong"}

\* A variant of the Ping and Pong arms that reports the frame like one that
\* does not decode.
ReaderControlReported(c, kind, limit) ==
    /\ Spawned(c) /\ conn[c].receive_task = "read"
    /\ frames < limit
    /\ receiver_dropped(c) \/ Len(status_rx[c]) < ChannelSize
    /\ frames' = frames + 1
    /\ status_rx' = [status_rx EXCEPT ![c] = sender_send(c, @, DecodeError("text"))]
    /\ UNCHANGED <<conn, subscriptions, broadcast_channel, command_rx, out, taken, published,
                   received, executed, wire, json_db>>
    /\ UNCHANGED tvars

\* receive_task, process_command on a Ping or a Pong frame: a debug line,
\* then ControlFlow::Continue.
ReaderControl(c, kind, limit) ==
    /\ Spawned(c) /\ conn[c].receive_task = "read"
    /\ frames < limit
    /\ kind \in ControlKinds
    /\ frames' = frames + 1
    /\ UNCHANGED <<conn, subscriptions, broadcast_channel, command_rx, status_rx, out, taken,
                   published, received, executed, wire, json_db>>
    /\ UNCHANGED tvars

\* receive_task ends: a Close frame, a receive error or the end of the stream.
ReaderEnd(c) ==
    /\ Spawned(c) /\ conn[c].receive_task = "read"
    /\ conn' = [conn EXCEPT ![c].receive_task = "done"]
    /\ UNCHANGED <<subscriptions, broadcast_channel, command_rx, status_rx, out, taken, published, received, executed, frames, wire, json_db>>
    /\ UNCHANGED tvars

\* Command::SubscribeBroadcast: the cache, then Database::add_subscription.
SubscribeBroadcast(c, command) ==
    LET options == [subscribe_to_self |-> command.subscribe_to_self]
    IN  /\ conn' = [conn EXCEPT ![c].subscriptions = Insert(@, command.channel, options),
                                ![c].disabled = FALSE]
        /\ subscriptions' =
              add_subscription(subscriptions, conn[c].client_id, command.channel, options)
        /\ UNCHANGED <<broadcast_channel, published, out>>
        /\ UNCHANGED tvars

\* Command::UnsubscribeBroadcast: the cache, then Database::remove_subscription.
UnsubscribeBroadcast(c, command) ==
    /\ conn' = [conn EXCEPT ![c].subscriptions = Remove(@, command.channel),
                            ![c].disabled = FALSE]
    /\ subscriptions' = remove_subscription(subscriptions, conn[c].client_id, command.channel)
    /\ UNCHANGED <<broadcast_channel, published, out>>
    /\ UNCHANGED tvars

\* A variant in which a connection's receiver goes when its handler returns.
receivers_of_open == {x \in Conns : Open(x) /\ conn[x].send_task # "done"}

\* The receivers of the bus: broadcast_channel.subscribe() of each
\* handle_socket, moved into send_task and dropped with it.
receivers == {x \in Conns : Spawned(x) /\ conn[x].send_task # "done"}

\* A variant of the bus that hands out the newest envelope first.
broadcast_send_lifo(bus, message) ==
    IF receivers = {} THEN bus ELSE <<message>> \o bus

\* broadcast::Sender::send: Err, and nothing stored, when no receiver exists.
broadcast_send(bus, message) ==
    IF receivers = {} THEN bus ELSE Append(bus, message)

\* A variant of the arm that does not put the connection's client id into
\* the envelope.
SendBroadcastUnsigned(c, command) ==
    LET message == [client_id |-> NoConn.client_id, channel |-> command.channel,
                    message |-> command.message]
    IN  /\ broadcast_channel' = broadcast_send(broadcast_channel, message)
        /\ conn' = [x \in Conns |->
                      [conn[x] EXCEPT
                         !.disabled = IF x = c THEN FALSE ELSE @,
                         !.lagged = @ \/ (Open(x) /\
                             Lagging(broadcast_channel', conn[x].next))]]
        /\ published' =
              IF receivers = {} THEN published ELSE
              Append(published,
                     [by |-> c,
                      within |-> {x \in Conns : Open(x) /\
                                    ~Lagging(broadcast_channel', conn[x].next)},
                      pass |-> {x \in Conns : Open(x) /\
                                  should_send_message(conn[x].client_id, message,
                                                      conn[x].subscriptions)}])
        /\ UNCHANGED <<subscriptions, out>>
        /\ UNCHANGED tvars

\* Command::SendBroadcast: broadcast_sender.send of the envelope with the
\* connection's client id; Ok and Err are logged.
SendBroadcast(c, command) ==
    LET message == [client_id |-> conn[c].client_id, channel |-> command.channel,
                    message |-> command.message]
    IN  /\ broadcast_channel' = broadcast_send(broadcast_channel, message)
        /\ conn' = [x \in Conns |->
                      [conn[x] EXCEPT
                         !.disabled = IF x = c THEN FALSE ELSE @,
                         !.lagged = @ \/ (Open(x) /\
                             Lagging(broadcast_channel', conn[x].next))]]
        /\ published' =
              IF receivers = {} THEN published ELSE
              Append(published,
                     [by |-> c,
                      within |-> {x \in Conns : Open(x) /\
                                    ~Lagging(broadcast_channel', conn[x].next)},
                      pass |-> {x \in Conns : Open(x) /\
                                  should_send_message(conn[x].client_id, message,
                                                      conn[x].subscriptions)}])
        /\ UNCHANGED <<subscriptions, out>>
        /\ UNCHANGED tvars

\* Command::SetString: the expiry from the clock, Table::set run to its end
\* (the insert and the wake of the reaper), then the Status(Ok) reply.
SetString(c, command) ==
    LET value == [data |-> command.value, expiry |-> ExpiryOf(now, command.expiration)]
    IN  /\ data' = Insert(data, command.key, value)
        /\ written' = Insert(written, command.key, value)
        /\ background_task' =
              (background_task \/ should_notify(next_expiration(data), value.expiry))
        /\ out' = [out EXCEPT ![c] = socket_sender_send(c, StatusFrame(StatusOk))]
        /\ conn' = [conn EXCEPT ![c].disabled = FALSE,
                                ![c].send_error = @ \/ send_err(c)]
        /\ UNCHANGED <<subscriptions, broadcast_channel, published>>
        /\ UNCHANGED <<now, setter, reaper, got, reaped, calls>>

\* Command::GetString: Table::get, then the GetString reply.
GetString(c, command) ==
    /\ out' = [out EXCEPT ![c] =
                 socket_sender_send(c, GetStringFrame(TableGet(data, command.key)))]
    /\ conn' = [conn EXCEPT ![c].disabled = FALSE,
                            ![c].send_error = @ \/ send_err(c)]
    /\ UNCHANGED <<subscriptions, broadcast_channel, published>>
    /\ UNCHANGED tvars

\* Message::GetJson(value), serialized as Text.
GetJsonFrame(value) == [type |-> "get_json", value |-> value]

\* A variant of the SetJson arm that sets the key in the string table.
SetJsonInStringDb(c, command) ==
    LET value == [data |-> command.value, expiry |-> ExpiryOf(now, command.expiration)]
    IN  /\ data' = Insert(data, command.key, value)
        /\ written' = written
        /\ background_task' =
              (background_task \/ should_notify(next_expiration(data), value.expiry))
        /\ out' = [out EXCEPT ![c] = socket_sender_send(c, StatusFrame(StatusOk))]
        /\ conn' = [conn EXCEPT ![c].disabled = FALSE,
                                ![c].send_error = @ \/ send_err(c)]
        /\ UNCHANGED <<subscriptions, broadcast_channel, published, json_db>>
        /\ UNCHANGED <<now, setter, reaper, got, reaped, calls>>

\* Command::SetJson: the expiry from the clock, json_db.set run to its end
\* (the insert and the wake of the JSON table's reaper), then the Status(Ok)
\* reply.
SetJson(c, command) ==
    LET value == [data |-> command.value, expiry |-> ExpiryOf(now, command.expiration)]
    IN  /\ json_db' = [json_db EXCEPT
                         !.data = Insert(@, command.key, value),
                         !.background_task =
                             @ \/ should_notify(next_expiration(json_db.data), value.expiry)]
        /\ out' = [out EXCEPT ![c] = socket_sender_send(c, StatusFrame(StatusOk))]
        /\ conn' = [conn EXCEPT ![c].disabled = FALSE,
                                ![c].send_error = @ \/ send_err(c)]
        /\ UNCHANGED <<subscriptions, broadcast_channel, published>>
        /\ UNCHANGED tvars

\* Command::GetJson: json_db.get, then the GetJson reply.
GetJson(c, command) ==
    /\ out' = [out EXCEPT ![c] =
                 socket_sender_send(c, GetJsonFrame(TableGet(json_db.data, command.key)))]
    /\ conn' = [conn EXCEPT ![c].disabled = FALSE,
                            ![c].send_error = @ \/ send_err(c)]
    /\ UNCHANGED <<subscriptions, broadcast_channel, published, json_db>>
    /\ UNCHANGED tvars

\* send_task, select branch command_rx.recv() = Some(command).
WriterCommand(c) ==
    /\ Selecting(c)
    /\ command_rx[c] # <<>>
    /\ LET command == Head(command_rx[c])
       IN  /\ command_rx' = [command_rx EXCEPT ![c] = Tail(@)]
           /\ executed' = [executed EXCEPT ![c] = Append(@, command)]
           /\ CASE command.type = "subscribe_broadcast" ->
                       SubscribeBroadcast(c, command) /\ UNCHANGED json_db
                [] command.type = "unsubscribe_broadcast" ->
                       UnsubscribeBroadcast(c, command) /\ UNCHANGED json_db
                [] command.type = "send_broadcast" ->
                       SendBroadcast(c, command) /\ UNCHANGED json_db
                [] command.type = "set_string" -> SetString(c, command) /\ UNCHANGED json_db
                [] command.type = "get_string" -> GetString(c, command) /\ UNCHANGED json_db
                [] command.type = "set_json" -> SetJson(c, command)
                [] command.type = "get_json" -> GetJson(c, command)
    /\ UNCHANGED <<status_rx, taken, received, frames, wire>>

\* send_task, select branch broadcast_receiver.recv(): Err(Lagged) moves the
\* receiver to the oldest retained envelope and disables the branch; Ok(message)
\* is filtered and, if accepted, sent as a Text frame.
WriterBroadcast(c) ==
    /\ Selecting(c)
    /\ ~conn[c].disabled
    /\ conn[c].next < Len(broadcast_channel)
    /\ IF Lagging(broadcast_channel, conn[c].next)
       THEN /\ conn' = [conn EXCEPT ![c].next = Len(broadcast_channel) - ChannelSize,
                                    ![c].disabled = disabled_after(TRUE)]
            /\ UNCHANGED <<out, taken>>
       ELSE LET message == broadcast_channel[conn[c].next + 1]
                accept == should_send_message(conn[c].client_id, message,
                                              conn[c].subscriptions)
            IN  /\ conn' = [conn EXCEPT ![c].next = @ + 1,
                                        ![c].disabled = disabled_after(FALSE),
                                        ![c].send_error = @ \/ (accept /\ send_err(c))]
                /\ taken' = [taken EXCEPT ![c] = Append(@, conn[c].next + 1)]
                /\ out' = [out EXCEPT ![c] =
                             IF accept
                             THEN socket_sender_send(c, BroadcastFrame(message))
                             ELSE @]
    /\ UNCHANGED <<subscriptions, broadcast_channel, command_rx, status_rx, published, received, executed, frames, wire, json_db>>
    /\ UNCHANGED tvars

\* send_task, select branch status_rx.recv() = Some(error).
WriterStatus(c) ==
    /\ Selecting(c)
    /\ status_rx[c] # <<>>
    /\ status_rx' = [status_rx EXCEPT ![c] = Tail(@)]
    /\ out' = [out EXCEPT ![c] = socket_sender_send(c, StatusFrame(Head(status_rx[c])))]
    /\ conn' = [conn EXCEPT ![c].disabled = FALSE,
                            ![c].send_error = @ \/ send_err(c)]
    /\ UNCHANGED <<subscriptions, broadcast_channel, command_rx, taken, published, received, executed, frames, wire, json_db>>
    /\ UNCHANGED tvars

\* send_task, select branch command_rx.recv() = None: every sender is dropped
\* (receive_task ended) and the channel is empty; break out of the loop.
WriterReceiverClosed(c) ==
    /\ Selecting(c)
    /\ conn[c].receive_task = "done"
    /\ command_rx[c] = <<>>
    /\ conn' = [conn EXCEPT ![c].send_task = "close"]
    /\ UNCHANGED <<subscriptions, broadcast_channel, command_rx, status_rx, out, taken, published, received, executed, frames, wire, json_db>>
    /\ UNCHANGED tvars

\* send_task after the loop: the Close frame, whose send error is only
\* logged, then the task returns.
WriterGoodbye(c) ==
    /\ Spawned(c) /\ conn[c].send_task = "close"
    /\ out' = [out EXCEPT ![c] = socket_sender_send(c, CloseFrame)]
    /\ conn' = [conn EXCEPT ![c].send_task = "done", ![c].goodbye = TRUE]
    /\ UNCHANGED <<subscriptions, broadcast_channel, command_rx, status_rx, taken, published, received, executed, frames, wire, json_db>>
    /\ UNCHANGED tvars

\* A variant of the supervisor whose abort reaches the tasks of every
\* connection.
SupervisorAll(c) ==
    /\ Open(c)
    /\ conn[c].receive_task = "done" \/ conn[c].send_task = "done"
    /\ conn' = [b \in Conns |->
                 IF conn[b].state = "open"
                 THEN [NoConn EXCEPT !.state = "closed",
                                     !.client_id = conn[b].client_id,
                                     !.send_task = "done",
                                     !.receive_task = "done",
                                     !.lagged = conn[b].lagged,
                                     !.sink = conn[b].sink,
                                     !.send_error = conn[b].send_error,
                                     !.goodbye = conn[b].goodbye]
                 ELSE conn[b]]
    /\ command_rx' = [command_rx EXCEPT ![c] = <<>>]
    /\ status_rx' = [status_rx EXCEPT ![c] = <<>>]
    /\ UNCHANGED <<subscriptions, broadcast_channel, out, taken, published, received, executed, frames, wire, json_db>>
    /\ UNCHANGED tvars

\* A variant of the supervisor that joins both tasks instead of selecting on
\* them.
SupervisorJoin(c) ==
    /\ Open(c)
    /\ conn[c].receive_task = "done" /\ conn[c].send_task = "done"
    /\ conn' = [conn EXCEPT ![c] = [NoConn EXCEPT !.state = "closed",
                                                  !.client_id = conn[c].client_id,
                                                  !.send_task = "done",
                                                  !.receive_task = "done",
                                                  !.lagged = conn[c].lagged,
                                                  !.sink = conn[c].sink,
                                                  !.send_error = conn[c].send_error,
                                                  !.goodbye = conn[c].goodbye]]
    /\ command_rx' = [command_rx EXCEPT ![c] = <<>>]
    /\ status_rx' = [status_rx EXCEPT ![c] = <<>>]
    /\ UNCHANGED <<subscriptions, broadcast_channel, out, taken, published, received, executed, frames, wire, json_db>>
    /\ UNCHANGED tvars

\* handle_socket, the final select: one task has finished, the other is
\* aborted while it is suspended at an await and the handler returns; the
\* tasks' channels, receiver and cache are dropped.
Supervisor(c) ==
    /\ Open(c)
    /\ conn[c].receive_task = "done" \/ conn[c].send_task = "done"
    /\ conn' = [conn EXCEPT ![c] = [NoConn EXCEPT !.state = "closed",
                                                  !.client_id = conn[c].client_id,
                                                  !.send_task = "done",
                                                  !.receive_task = "done",
                                                  !.lagged = conn[c].lagged,
                                                  !.sink = conn[c].sink,
                                                  !.send_error = conn[c].send_error,
                                                  !.goodbye = conn[c].goodbye]]
    /\ command_rx' = [command_rx EXCEPT ![c] = <<>>]
    /\ status_rx' = [status_rx EXCEPT ![c] = <<>>]
    /\ UNCHANGED <<subscriptions, broadcast_channel, out, taken, published, received, executed, frames, wire, json_db>>
    /\ UNCHANGED tvars

\* handle_socket, the final select, when the task it aborts is in the middle
\* of a poll: JoinHandle::abort only schedules the cancellation, the handler
\* does not await the handle and returns, and the task runs on to its next
\* pending await.
SupervisorReturns(c) ==
    /\ Open(c)
    /\ conn[c].receive_task = "done" \/ conn[c].send_task = "done"
    /\ conn[c].receive_task # "done" \/ conn[c].send_task # "done"
    /\ conn' = [conn EXCEPT ![c].state = "closed"]
    /\ UNCHANGED <<subscriptions, broadcast_channel, command_rx, status_rx, out, taken,
                   published, received, executed, frames, wire, json_db>>
    /\ UNCHANGED tvars

\* The aborted task reaches a pending await and is dropped, with its
\* channels, receiver and cache.
AbortCompletes(c) ==
    /\ conn[c].state = "closed"
    /\ \/ conn[c].receive_task # "done" \/ conn[c].send_task # "done"
       \/ command_rx[c] # <<>> \/ status_rx[c] # <<>>
    /\ conn' = [conn EXCEPT ![c] = [NoConn EXCEPT !.state = "closed",
                                                  !.client_id = conn[c].client_id,
                                                  !.send_task = "done",
                                                  !.receive_task = "done",
                                                  !.lagged = conn[c].lagged,
                                                  !.sink = conn[c].sink,
                                                  !.send_error = conn[c].send_error,
                                                  !.goodbye = conn[c].goodbye]]
    /\ command_rx' = [command_rx EXCEPT ![c] = <<>>]
    /\ status_rx' = [status_rx EXCEPT ![c] = <<>>]
    /\ UNCHANGED <<subscriptions, broadcast_channel, out, taken, published, received, executed, frames, wire, json_db>>
    /\ UNCHANGED tvars

\* The transport of connection c breaks: from now on every send of
\* socket_sender returns Err.
TransportFails(c) ==
    /\ Open(c) /\ conn[c].sink = "ok"
    /\ conn' = [conn EXCEPT ![c].sink = "failed"]
    /\ UNCHANGED <<subscriptions, broadcast_channel, command_rx, status_rx, out, taken,
                   published, received, executed, frames, wire, json_db>>
    /\ UNCHANGED tvars

\* The connections in S, reading at most limit frames, each one a command of
\* the set commands or a frame of one of the kinds that does not decode.
ConnNext(S, limit, commands, kinds) ==
    \/ \E c \in S : \E id \in IdsOf(c) : Upgrade(c, id)
    \/ \E c \in S, command \in commands : ReaderCommand(c, command, limit)
    \/ \E c \in S, kind \in kinds : ReaderMalformed(c, kind, limit)
    \/ \E c \in S : ReaderEnd(c)
    \/ \E c \in S : WriterPing(c)
    \/ \E c \in S : WriterClientId(c)
    \/ \E c \in S : WriterCommand(c)
    \/ \E c \in S : WriterBroadcast(c)
    \/ \E c \in S : WriterStatus(c)
    \/ \E c \in S : WriterReceiverClosed(c)
    \/ \E c \in S : WriterGoodbye(c)
    \/ \E c \in S : Supervisor(c)

\* The connections exchanging broadcasts over a transport that holds.
WsNext(limit) == ConnNext(Conns, limit, Commands, {"text"})

\* One session with the commands on the string table and a broadcast, over a
\* transport that may break.
SessionConns == {"c1"}
SessionCommands ==
    KvCommands \cup {command \in Commands : command.type = "send_broadcast"
                                              /\ command.channel = "global"}
SessionNext ==
    \/ ConnNext(SessionConns, MaxFrames, SessionCommands, FrameKinds)
    \/ \E c \in SessionConns : TransportFails(c)
    \/ \E c \in SessionConns : SupervisorReturns(c)
    \/ \E c \in SessionConns : AbortCompletes(c)

\* The session with Ping and Pong frames among the inbound frames.
ControlNext ==
    \/ SessionNext
    \/ \E c \in SessionConns, kind \in ControlKinds : ReaderControl(c, kind, MaxFrames)

\* The reaper spawned by Database::new for the JSON table, on that table's
\* Store: remove_expired_values, first half.
JsonReaperRemove ==
    /\ json_db.reaper.pc = "remove"
    /\ json_db' = [json_db EXCEPT !.data = Retain(@, now),
                                  !.reaper = [@ EXCEPT !.pc = "next", !.now = now]]
    /\ UNCHANGED <<conn, subscriptions, broadcast_channel, command_rx, status_rx, out, taken,
                   published, received, executed, frames, wire>>
    /\ UNCHANGED tvars

\* remove_expired_values, second half: next_expiration and the duration.
JsonReaperNext ==
    /\ json_db.reaper.pc = "next"
    /\ LET next == next_expiration(json_db.data)
       IN  json_db' = [json_db EXCEPT !.reaper =
                         IF next = NoExpiry
                         THEN [StartReaper EXCEPT !.pc = "notified"]
                         ELSE [StartReaper EXCEPT
                                 !.pc = "sleep", !.next = next,
                                 !.until = now + SleepDuration(next, json_db.reaper.now)]]
    /\ UNCHANGED <<conn, subscriptions, broadcast_channel, command_rx, status_rx, out, taken,
                   published, received, executed, frames, wire>>
    /\ UNCHANGED tvars

\* remove_expired_entries of the JSON table: the sleep completes.
JsonReaperTimer ==
    /\ json_db.reaper.pc = "sleep"
    /\ now >= json_db.reaper.until
    /\ json_db' = [json_db EXCEPT !.reaper = StartReaper]
    /\ UNCHANGED <<conn, subscriptions, broadcast_channel, command_rx, status_rx, out, taken,
                   published, received, executed, frames, wire>>
    /\ UNCHANGED tvars

\* remove_expired_entries of the JSON table: notified() completes and takes
\* the permit of that table's Notify.
JsonReaperNotified ==
    /\ json_db.reaper.pc \in {"sleep", "notified"}
    /\ json_db.background_task
    /\ json_db' = [json_db EXCEPT !.background_task = FALSE, !.reaper = StartReaper]
    /\ UNCHANGED <<conn, subscriptions, broadcast_channel, command_rx, status_rx, out, taken,
                   published, received, executed, frames, wire>>
    /\ UNCHANGED tvars

\* serde_json::Value: the documents a SetJson carries, by their text.
JsonValues == {"{\"n\":1}"}

\* aether_common::Command, the commands on the JSON table.
JsonCommands ==
    [type : {"set_json"}, key : Keys, value : JsonValues, expiration : Expirations]
    \cup [type : {"get_json"}, key : Keys]

\* One session setting and getting one key in both tables, and broadcasting,
\* with both reapers and the clock.
StoreCommands ==
    {command \in KvCommands \cup JsonCommands :
        /\ command.key = "k1"
        /\ command.type = "set_string" => command.value = "a"}
    \cup {command \in Commands : command.type = "send_broadcast"
                                  /\ command.channel = "global"}
StoresNext ==
    \/ ConnNext(SessionConns, MaxFrames, StoreCommands, {"text"})
    \/ Tick
    \/ ReaperRemove
    \/ ReaperNext
    \/ ReaperTimer
    \/ ReaperNotified
    \/ JsonReaperRemove
    \/ JsonReaperNext
    \/ JsonReaperTimer
    \/ JsonReaperNotified

\* The channel names given to the Registry: any string is accepted.
RegistryChannels == Channels \cup {"lobby"}

\* Database::add_subscription, called on the Registry.
AddSubscription(client_id, channel, options) ==
    /\ subscriptions' = add_subscription(subscriptions, client_id, channel, options)
    /\ UNCHANGED <<conn, broadcast_channel, command_rx, status_rx, out, taken, published,
                   received, executed, frames, wire, json_db>>
    /\ UNCHANGED tvars

\* Database::remove_subscription, called on the Registry.
RemoveSubscription(client_id, channel) ==
    /\ subscriptions' = remove_subscription(subscriptions, client_id, channel)
    /\ UNCHANGED <<conn, broadcast_channel, command_rx, status_rx, out, taken, published,
                   received, executed, frames, wire, json_db>>
    /\ UNCHANGED tvars

\* Database::clear_subscriptions, called on the Registry.
ClearSubscriptions(client_id) ==
    /\ subscriptions' = clear_subscriptions(subscriptions, client_id)
    /\ UNCHANGED <<conn, broadcast_channel, command_rx, status_rx, out, taken, published,
                   received, executed, frames, wire, json_db>>
    /\ UNCHANGED tvars

\* The Registry under any sequence of calls of its interface.
RegistryNext ==
    \/ \E client_id \in ClientIds, channel \in RegistryChannels,
          options \in SubscriptionOptions : AddSubscription(client_id, channel, options)
    \/ \E client_id \in ClientIds, channel \in RegistryChannels :
          RemoveSubscription(client_id, channel)
    \/ \E client_id \in ClientIds : ClearSubscriptions(client_id)

\* ------------------------------------------------------------------------
\* The wire format of Command (crates/common/src/lib.rs)
\* ------------------------------------------------------------------------
\* JSON null in the place of a number.
Null == NoExpiry
\* The TTLs a SetString or SetJson may carry on the wire.
WireSeconds == 0..MaxInstant
\* A JSON object is a function from its keys to their values. The valid
\* Command JSONs: the variant's snake_case name as tag and its fields as
\* body; subscribe_to_self and expiration may be left out, expiration may
\* be null.
CommandJson ==
    [tag : {"subscribe_broadcast"},
     body : [channel : RegistryChannels]
            \cup [channel : RegistryChannels, subscribe_to_self : BOOLEAN]]
    \cup [tag : {"unsubscribe_broadcast"}, body : RegistryChannels]
    \cup [tag : {"send_broadcast"}, body : [channel : RegistryChannels, message : 1..MaxFrames]]
    \cup [tag : {"set_string", "set_json"},
          body : [key : Keys, value : DataValues]
                 \cup [key : Keys, value : DataValues,
                       expiration : WireSeconds \cup {Null}]]
    \cup [tag : {"get_string", "get_json"}, body : [key : Keys]]

\* A variant of Decode in which a missing subscribe_to_self means true.
DecodeDefaultTrue(json) ==
    CASE json.tag = "subscribe_broadcast" ->
            [type |-> json.tag, channel |-> json.body.channel,
             subscribe_to_self |-> IF "subscribe_to_self" \in DOMAIN json.body
                                   THEN json.body.subscribe_to_self ELSE TRUE]
      [] json.tag = "unsubscribe_broadcast" -> [type |-> json.tag, channel |-> json.body]
      [] json.tag = "send_broadcast" ->
            [type |-> json.tag, channel |-> json.body.channel, message |-> json.body.message]
      [] json.tag \in {"set_string", "set_json"} ->
            [type |-> json.tag, key |-> json.body.key, value |-> json.body.value,
             expiration |-> IF "expiration" \in DOMAIN json.body
                            THEN json.body.expiration ELSE NoExpiry]
      [] json.tag \in {"get_string", "get_json"} -> [type |-> json.tag, key |-> json.body.key]

\* serde_json::from_str::<Command>: the derived Deserialize. A missing
\* subscribe_to_self is false (#[serde(default)]); a missing or null
\* expiration is None.
Decode(json) ==
    CASE json.tag = "subscribe_broadcast" ->
            [type |-> json.tag, channel |-> json.body.channel,
             subscribe_to_self |-> IF "subscribe_to_self" \in DOMAIN json.body
                                   THEN json.body.subscribe_to_self ELSE FALSE]
      [] json.tag = "unsubscribe_broadcast" -> [type |-> json.tag, channel |-> json.body]
      [] json.tag = "send_broadcast" ->
            [type |-> json.tag, channel |-> json.body.channel, message |-> json.body.message]
      [] json.tag \in {"set_string", "set_json"} ->
            [type |-> json.tag, key |-> json.body.key, value |-> json.body.value,
             expiration |-> IF "expiration" \in DOMAIN json.body
                            THEN json.body.expiration ELSE NoExpiry]
      [] json.tag \in {"get_string", "get_json"} -> [type |-> json.tag, key |-> json.body.key]

\* serde_json::to_string(&command): the derived Serialize writes every field
\* of the variant, None as null.
Encode(command) ==
    CASE command.type = "subscribe_broadcast" ->
            [tag |-> command.type,
             body |-> [channel |-> command.channel,
                       subscribe_to_self |-> command.subscribe_to_self]]
      [] command.type = "unsubscribe_broadcast" ->
            [tag |-> command.type, body |-> command.channel]
      [] command.type = "send_broadcast" ->
            [tag |-> command.type,
             body |-> [channel |-> command.channel, message |-> command.message]]
      [] command.type \in {"set_string", "set_json"} ->
            [tag |-> command.type,
             body |-> [key |-> command.key, value |-> command.value,
                       expiration |-> IF command.expiration = NoExpiry
                                      THEN Null ELSE command.expiration]]
      [] command.type \in {"get_string", "get_json"} ->
            [tag |-> command.type, body |-> [key |-> command.key]]

\* A Command JSON arrives.
WireRead(json) ==
    /\ wire.stage = "idle"
    /\ wire' = [stage |-> "read", json |-> json]
    /\ UNCHANGED <<conn, subscriptions, broadcast_channel, command_rx, status_rx, out, taken,
                   published, received, executed, frames, json_db>>
    /\ UNCHANGED tvars

\* It is decoded.
WireDecode ==
    /\ wire.stage = "read"
    /\ wire' = [stage |-> "decoded", json |-> wire.json, command |-> Decode(wire.json)]
    /\ UNCHANGED <<conn, subscriptions, broadcast_channel, command_rx, status_rx, out, taken,
                   published, received, executed, frames, json_db>>
    /\ UNCHANGED tvars

\* The Command is encoded again.
WireEncode ==
    /\ wire.stage = "decoded"
    /\ wire' = [stage |-> "encoded", json |-> wire.json, command |-> wire.command,
                encoded |-> Encode(wire.command)]
    /\ UNCHANGED <<conn, subscriptions, broadcast_channel, command_rx, status_rx, out, taken,
                   published, received, executed, frames, json_db>>
    /\ UNCHANGED tvars

WireNext ==
    \/ \E json \in CommandJson : WireRead(json)
    \/ WireDecode
    \/ WireEncode

Init == TInit /\ WInit

\* The table's steps with the callers in S issuing Table::set.
TableNext(S) ==
    \/ Tick
    \/ \E k \in Keys : Get(k)
    \/ \E s \in S, k \in Keys, d \in DataValues, expiration \in Expiries :
          /\ ExpiryOf(now, expiration) \in Expiries
          /\ SetBegin(s, k, [data |-> d, expiry |-> ExpiryOf(now, expiration)])
    \/ \E s \in S : SetInsert(s)
    \/ \E s \in S : SetNotify(s)
    \/ ReaperRemove
    \/ ReaperNext
    \/ ReaperTimer
    \/ ReaperNotified

Next == TableNext({"s1"})

\* The table called through Table::set with any Value, also one whose expiry
\* is before the clock.
ApiNext ==
    \/ Tick
    \/ \E k \in Keys : Get(k)
    \/ \E k \in Keys, d \in DataValues, expiry \in Expiries :
          SetBegin("s1", k, [data |-> d, expiry |-> expiry])
    \/ SetInsert("s1")
    \/ SetNotify("s1")
    \/ ReaperRemove
    \/ ReaperNext
    \/ ReaperTimer
    \/ ReaperNotified
ApiSpec == Init /\ [][ApiNext]_vars

Spec == Init /\ [][Next]_vars

\* The connections and the bus.
WsSpec == Init /\ [][WsNext(MaxFrames)]_vars

\* The same under the scheduling of the runtime: a writer task that can
\* take a step is polled, and select! polls every enabled branch.
WsFairSpec ==
    /\ Init
    /\ [][WsNext(MaxFairFrames)]_vars
    /\ \A c \in Conns :
          /\ WF_vars(WriterPing(c))
          /\ WF_vars(WriterClientId(c))
          /\ WF_vars(WriterCommand(c))
          /\ WF_vars(WriterBroadcast(c))
          /\ WF_vars(WriterStatus(c))

\* One session under the same scheduling.
\* One connection setting a key with every TTL, also one that no instant can
\* hold, while the clock advances.
TimedCommands ==
    [type : {"set_string"}, key : {"k1"}, value : {"a"},
     expiration : {NoExpiry} \cup (0..(MaxInstant + 1))]
    \cup {command \in Commands : command.type = "send_broadcast"
                                  /\ command.channel = "global"}
TimedNext ==
    \/ ConnNext(SessionConns, MaxFrames, TimedCommands, {"text"})
    \/ Tick
TimedSpec == Init /\ [][TimedNext]_vars

\* Two connections, each with its decode errors, its transport that may
\* break and its teardown.
PairCommands ==
    {command \in Commands :
        \/ command.type = "subscribe_broadcast" /\ command.subscribe_to_self
        \/ command.type = "send_broadcast" /\ command.channel = "room"}
PairNext ==
    \/ ConnNext(Conns, MaxFairFrames, PairCommands, {"text"})
    \/ \E c \in Conns : TransportFails(c)
    \/ \E c \in Conns : SupervisorReturns(c)
    \/ \E c \in Conns : AbortCompletes(c)
PairSpec == Init /\ [][PairNext]_vars

ControlSpec == Init /\ [][ControlNext]_vars

StoresSpec == Init /\ [][StoresNext]_vars

RegistrySpec == Init /\ [][RegistryNext]_vars

\* Decoding and encoding of every valid Command JSON.
WireSpec == Init /\ [][WireNext]_vars

SessionSpec ==
    /\ Init
    /\ [][SessionNext]_vars
    /\ \A c \in SessionConns :
          /\ WF_vars(WriterPing(c))
          /\ WF_vars(WriterClientId(c))
          /\ WF_vars(WriterCommand(c))
          /\ WF_vars(WriterBroadcast(c))
          /\ WF_vars(WriterStatus(c))

\* One session under the scheduling of the handler: the final select is woken
\* when a task finishes, and the runtime drops a task whose abort was
\* requested when it next suspends.
TeardownSpec ==
    /\ Init
    /\ [][SessionNext]_vars
    /\ \A c \in SessionConns :
          /\ WF_vars(Supervisor(c))
          /\ WF_vars(AbortCompletes(c))

\* ------------------------------------------------------------------------
\* Claims about the expiring table
\* ------------------------------------------------------------------------
NotExpired(value) == value.expiry = NoExpiry \/ now <= value.expiry
Quiet == \A s \in Setters : setter[s].pc = "idle"

\* C1: Get(k) returns a value iff an entry for k is present and its expiry is
\* absent or not earlier than the time of the read; an expired entry the
\* reaper has not yet removed is never returned.
GetChecksExpiry ==
    \A g \in got :
        g.res # {} <=> (g.key \in DOMAIN data /\ NotExpired(data[g.key]))

\* C2: after Set(k, v) completed, with no later Set(k, _) completed and v not
\* yet expired, Get(k) returns exactly v, data and expiry, whatever Sets on
\* other keys and reaper passes happened in between.
SetGetRoundTrip ==
    \A g \in got :
        (g.key \in DOMAIN written /\ NotExpired(written[g.key]))
            => g.res = {written[g.key]}

\* A Get returned the value last set with an expiry, while another key that
\* was set has already been removed by a reaper pass.
RoundTripSeen ==
    \E g \in got :
        /\ g.key \in DOMAIN written
        /\ g.res = {written[g.key]}
        /\ written[g.key].expiry # NoExpiry
        /\ \E k \in DOMAIN written : k # g.key /\ k \notin DOMAIN data

\* C3: the reaper never ends up blocked on the wake signal alone, with no
\* wake pending and no Set in flight, while the table holds an entry with an
\* expiry (such an entry would never be removed).
ReaperNeverStranded ==
    ~ ( /\ reaper.pc = "notified"
        /\ ~background_task
        /\ Quiet
        /\ next_expiration(data) # NoExpiry )

\* C4: while the reaper sleeps until T, the minimum expiry it last computed,
\* a Set that inserted an entry with expiry e < T has woken it: with no wake
\* pending and no Set in flight, no entry of the table expires before T.
SoonerExpiryWakesReaper ==
    (reaper.pc = "sleep" /\ ~background_task /\ Quiet)
        => \A k \in DOMAIN data :
              data[k].expiry # NoExpiry => reaper.next <= data[k].expiry

\* C5: an entry leaves the table only if it has an expiry and that expiry is
\* strictly earlier than the current time; entries without expiry are never
\* removed, and an overwritten entry is judged by its current expiry.
ReaperRemovesOnlyExpired ==
    [][\A k \in DOMAIN data :
          k \notin DOMAIN data' => (data[k].expiry # NoExpiry /\ data[k].expiry < now)]_vars

\* A reaper pass has just removed an entry whose expiry had passed and kept
\* an entry without expiry.
ReapedOverwritten ==
    \E r \in reaped :
        /\ r.value.expiry > 0
        /\ \E k \in DOMAIN data : data[k].expiry = NoExpiry

\* ------------------------------------------------------------------------
\* Delivery of broadcasts
\* ------------------------------------------------------------------------
\* The frames connection c has given to its socket.
Frames(c) == {out[c][k] : k \in 1..Len(out[c])}
\* The positions of the envelopes connection c has taken from its receiver.
Taken(c) == {taken[c][k] : k \in 1..Len(taken[c])}
\* Connection c has sent its client the envelope at position i.
Forwarded(c, i) ==
    IF i <= Len(broadcast_channel)
    THEN BroadcastFrame(broadcast_channel[i]) \in Frames(c)
    ELSE FALSE
\* The envelope at position i is on the channel.
PublishedOn(i, channel) ==
    IF i <= Len(broadcast_channel) THEN broadcast_channel[i].channel = channel ELSE FALSE
\* The envelope at position i is in the backlog of Running connection c.
Pending(c, i) == Running(c) /\ i <= Len(broadcast_channel) /\ conn[c].next < i

SelfDelivery ==
    [][\A c \in Conns :
          Len(taken'[c]) > Len(taken[c]) =>
             LET i == taken'[c][Len(taken'[c])]
                 E == broadcast_channel[i]
                 cache == conn[c].subscriptions
                 sent == out'[c] = Append(out[c], BroadcastFrame(E))
             IN  E.channel # "global" =>
                   /\ published[i].by = c =>
                        /\ sent <=> (E.channel \in DOMAIN cache
                                        /\ cache[E.channel].subscribe_to_self)
                        /\ sent \/ out'[c] = out[c]
                   /\ (E.client_id # conn[c].client_id /\ E.channel \in DOMAIN cache) =>
                        /\ sent
                        /\ BroadcastFrame(E).client_id = conn[published[i].by].client_id]_vars

\* A sender subscribed without subscribe_to_self has taken its own envelope
\* and sent nothing, while a connection of another client has forwarded it.
SelfDeliverySeen ==
    \E i \in 1..Len(broadcast_channel) :
        LET E == broadcast_channel[i]
            sender == published[i].by
        IN  /\ E.channel # "global"
            /\ i \in Taken(sender)
            /\ E.channel \in DOMAIN conn[sender].subscriptions
            /\ ~Forwarded(sender, i)
            /\ \E c \in Conns \ {sender} :
                  conn[c].client_id # E.client_id /\ Forwarded(c, i)

\* C9: an envelope published while the backlog of a Running connection had
\* not overflowed, and still in that backlog, is within reach of the writer:
\* its select either takes from the receiver or has a command or a status
\* message to handle first.
PendingEnvelopeTaken ==
    \A c \in Conns : \A i \in 1..Len(broadcast_channel) :
        (Pending(c, i) /\ c \in published[i].within) =>
            (~conn[c].disabled \/ command_rx[c] # <<>> \/ status_rx[c] # <<>>)

\* C10: after its backlog has overflowed, a Running connection whose receiver
\* holds envelopes goes on taking them: its select takes from the receiver
\* unless a command or a status message is there to handle first.
LaggedWriterContinues ==
    \A c \in Conns :
        (Running(c) /\ conn[c].lagged /\ conn[c].next < Len(broadcast_channel)) =>
            (~conn[c].disabled \/ command_rx[c] # <<>> \/ status_rx[c] # <<>>)

\* ------------------------------------------------------------------------
\* Subscriptions, commands and the life of a connection
\* ------------------------------------------------------------------------
\* The Registry's channel -> options mapping of a client identifier.
RegistryOf(client_id) ==
    IF client_id \in DOMAIN subscriptions THEN subscriptions[client_id] ELSE <<>>

\* C11: the local cache of every Running connection equals the Registry's
\* mapping for its client identifier, also when several connections use the
\* same client identifier (a subscribe is one step of the writer here, so the
\* writer is always between commands).
CacheCoherent ==
    \A c \in Conns : Running(c) => conn[c].subscriptions = RegistryOf(conn[c].client_id)

\* Connection c moves towards Closed in this step: its reader ends, its
\* writer leaves the select loop or returns, or the handler returns.
Closes(c) ==
    /\ Open(c)
    /\ \/ conn'[c].state = "closed"
       \/ conn'[c].receive_task # conn[c].receive_task
       \/ conn'[c].send_task \in {"close", "done"} /\ conn'[c].send_task # conn[c].send_task

\* C12: no step of the closing of a connection changes the Registry, and a
\* connection starts with a cache equal to the Registry entry of its client
\* identifier (the empty mapping when there is none).
SubscriptionsPersist ==
    [][\A c \in Conns :
          /\ Closes(c) => subscriptions' = subscriptions
          /\ (conn[c].state = "idle" /\ conn'[c].state = "open") =>
                conn'[c].subscriptions =
                    IF conn'[c].client_id \in DOMAIN subscriptions
                    THEN subscriptions[conn'[c].client_id]
                    ELSE <<>>]_vars

\* A connection that never subscribed has forwarded an envelope on a channel
\* that an earlier, now closed connection of its client identifier subscribed to.
ResubscribedByRegistry ==
    \E c \in Conns : \E i \in Taken(c) :
        /\ \A k \in 1..Len(executed[c]) : executed[c][k].type # "subscribe_broadcast"
        /\ broadcast_channel[i].channel # "global"
        /\ Forwarded(c, i)
        /\ \E x \in Conns \ {c} :
              conn[x].state = "closed" /\ conn[x].client_id = conn[c].client_id

\* C13: the commands a connection's reader decoded are those its writer has
\* run followed by those waiting in the command channel, in arrival order:
\* none is skipped, repeated, reordered or dropped, and the channel never
\* holds more than its capacity.
CommandOrder ==
    \A c \in Conns :
        Open(c) => /\ received[c] = executed[c] \o command_rx[c]
                   /\ Len(command_rx[c]) <= ChannelSize

\* A writer has run a command while its command channel is full and two
\* different commands wait in it.
CommandsQueued ==
    \E c \in Conns :
        /\ Running(c)
        /\ executed[c] # <<>>
        /\ Len(command_rx[c]) = ChannelSize
        /\ command_rx[c][1] # command_rx[c][2]

\* C14: the writer answers each SetString it runs with one Status(Ok) frame
\* and each GetString with one GetString frame carrying what the table holds
\* for the key (none when it holds nothing), appended to the frames sent so
\* far, and answers no other command; a frame whose send fails is lost.
ReplyDiscipline ==
    [][\A c \in Conns :
          Len(executed'[c]) > Len(executed[c]) =>
             LET command == executed'[c][Len(executed'[c])]
                 reply == IF command.type = "set_string"
                          THEN <<StatusFrame(StatusOk)>>
                          ELSE IF command.type = "get_string"
                               THEN <<GetStringFrame(IF command.key \in DOMAIN data
                                                     THEN {data[command.key]}
                                                     ELSE {})>>
                               ELSE <<>>
             IN  out'[c] = IF conn[c].sink = "ok" THEN out[c] \o reply ELSE out[c]]_vars

\* A client has set a key, read it and read another key, and has been sent
\* Status(Ok), the value and none, in this order, after the handshake.
RepliesInOrder ==
    \E c \in Conns : \E k \in Keys : \E v \in Values :
        /\ Len(executed[c]) = 3
        /\ executed[c][1].type = "set_string" /\ executed[c][1].key = k
        /\ executed[c][2] = [type |-> "get_string", key |-> k]
        /\ executed[c][3].type = "get_string" /\ executed[c][3].key # k
        /\ v.data = executed[c][1].value
        /\ out[c] = <<PingFrame, ClientIdFrame(conn[c].client_id), StatusFrame(StatusOk),
                      GetStringFrame({v}), GetStringFrame({})>>

\* The two decode errors, as the client reads them.
TextDecodeError ==
    [error |-> "Could not deserialize string message", operation |-> "None"]
BinaryDecodeError ==
    [error |-> "Could not deserialize binary message", operation |-> "None"]
\* The number of decode errors connection c has sent its client.
ErrorsSent(c) ==
    Cardinality({k \in 1..Len(out[c]) :
                    out[c][k] \in {StatusFrame(TextDecodeError), StatusFrame(BinaryDecodeError)}})
\* The reader of c consumes a frame that yields no command while the writer
\* still holds the receivers: the frame did not decode.
MalformedStep(c) ==
    /\ Open(c) /\ conn[c].receive_task = "read" /\ conn[c].send_task # "done"
    /\ frames' = frames + 1
    /\ received' = received

WriterStopsOnSendError ==
    \A c \in Conns : (Open(c) /\ conn[c].send_error) => conn[c].send_task # "select"

\* C17: once the handler of a connection has returned, neither of its tasks
\* executes a command, puts anything on a channel or sends a frame.
ClosedIsQuiet ==
    [][\A c \in Conns : conn[c].state = "closed" =>
          /\ executed'[c] = executed[c]
          /\ out'[c] = out[c]
          /\ Len(command_rx'[c]) <= Len(command_rx[c])
          /\ Len(status_rx'[c]) <= Len(status_rx[c])]_vars

\* C18: a connection is Closed only after its writer has attempted to send
\* the Close frame with code NORMAL and reason "Goodbye".
GoodbyeBeforeClosed ==
    \A c \in Conns : conn[c].state = "closed" => conn[c].goodbye

\* C19: the first frame a connection sends is the Ping with payload {1,2,3}
\* and the second the ClientId message with the connection's identifier; no
\* command is executed, no envelope taken from the bus and no other frame
\* sent before the ClientId frame; a writer whose Ping or ClientId send
\* failed has terminated without executing a command.
HandshakeOrder ==
    \A c \in Conns :
        /\ Len(out[c]) >= 1 => out[c][1] = PingFrame
        /\ Len(out[c]) >= 2 => out[c][2] = ClientIdFrame(conn[c].client_id)
        /\ (executed[c] # <<>> \/ taken[c] # <<>>) => Len(out[c]) >= 2
        /\ (Spawned(c) /\ conn[c].send_task \in {"select", "close"}) => Len(out[c]) >= 2
        /\ (Spawned(c) /\ Len(out[c]) < 2 /\ conn[c].sink # "ok"
               /\ conn[c].send_task = "done") => executed[c] = <<>>
\* Reached: the transport broke after the Ping, the ClientId send failed and
\* the writer returned with the client's command still unexecuted.
HandshakeFailed ==
    \E c \in SessionConns :
        /\ Open(c) /\ conn[c].send_task = "done" /\ conn[c].sink # "ok"
        /\ out[c] = <<PingFrame>>
        /\ received[c] # <<>> /\ executed[c] = <<>>

\* C20: Add(c, ch, o) on any Registry the interface can produce is an
\* upsert: afterwards Get(c) maps ch to o, whatever ch was mapped to before;
\* every other channel of c is mapped as before; and every other client
\* identifier has the entry it had, or none as before.
AddIsUpsert ==
    \A client_id \in ClientIds : \A channel \in RegistryChannels :
      \A options \in SubscriptionOptions :
        LET after == add_subscription(subscriptions, client_id, channel, options)
            was == get_subscriptions(subscriptions, client_id)
            is == get_subscriptions(after, client_id)
        IN  /\ channel \in DOMAIN is /\ is[channel] = options
            /\ \A other \in RegistryChannels \ {channel} :
                  /\ other \in DOMAIN is <=> other \in DOMAIN was
                  /\ other \in DOMAIN was => is[other] = was[other]
            /\ \A other \in ClientIds \ {client_id} :
                  /\ other \in DOMAIN after <=> other \in DOMAIN subscriptions
                  /\ other \in DOMAIN subscriptions => after[other] = subscriptions[other]
\* Reached: Add calls have given A two channels with different options, the
\* first of them set a second time with other options, and B a channel.
UpsertedTwice ==
    /\ DOMAIN subscriptions = ClientIds
    /\ DOMAIN subscriptions["A"] = {"room", "lobby"}
    /\ subscriptions["A"]["room"] = [subscribe_to_self |-> TRUE]
    /\ subscriptions["A"]["lobby"] = [subscribe_to_self |-> FALSE]
    /\ DOMAIN subscriptions["B"] = {"room"}

\* C21: Clear(c) on any Registry the interface can produce leaves Get(c)
\* empty, whatever c was subscribed to, and leaves every other client
\* identifier with the entry it had; Get of an identifier without an entry
\* is the empty mapping.
ClearEmptiesOne ==
    \A client_id \in ClientIds :
        LET after == clear_subscriptions(subscriptions, client_id)
        IN  /\ DOMAIN get_subscriptions(after, client_id) = {}
            /\ \A other \in ClientIds \ {client_id} :
                  /\ other \in DOMAIN after <=> other \in DOMAIN subscriptions
                  /\ get_subscriptions(after, other) = get_subscriptions(subscriptions, other)
            /\ client_id \notin DOMAIN subscriptions =>
                  DOMAIN get_subscriptions(subscriptions, client_id) = {}
\* Reached: a Registry on which Clear has something to remove and something
\* to keep: A holds two channels, B another one.
ClearHasWork ==
    /\ DOMAIN subscriptions = ClientIds
    /\ DOMAIN subscriptions["A"] = {"global", "lobby"}
    /\ DOMAIN subscriptions["B"] = {"lobby"}
    /\ DOMAIN get_subscriptions(clear_subscriptions(subscriptions, "A"), "A") = {}
    /\ clear_subscriptions(subscriptions, "A")["B"] = subscriptions["B"]

\* Connection c executes command in this step.
Executes(c, command) ==
    /\ Len(executed'[c]) = Len(executed[c]) + 1
    /\ executed'[c][Len(executed'[c])] = command

\* C22: an UnsubscribeBroadcast of a channel that neither the connection's
\* cache nor the client's Registry entry holds changes nothing: the cache and
\* the whole Registry are as before, also when the client identifier has no
\* Registry entry, and no reply or error is produced.
UnsubscribeAbsentIsNoOp ==
    [][\A c \in Conns : \A channel \in Rooms :
          (/\ Executes(c, [type |-> "unsubscribe_broadcast", channel |-> channel])
           /\ channel \notin DOMAIN conn[c].subscriptions
           /\ channel \notin DOMAIN RegistryOf(conn[c].client_id))
          => /\ conn'[c].subscriptions = conn[c].subscriptions
             /\ subscriptions' = subscriptions
             /\ out' = out
             /\ status_rx' = status_rx]_vars

\* C23: a SubscribeBroadcast executed on a connection whose cache and whose
\* client's Registry entry already hold the channel with the same options,
\* as an earlier execution of the same command left them, changes neither.
SubscribeIdempotent ==
    [][\A c \in Conns : \A command \in Commands :
          (/\ command.type = "subscribe_broadcast"
           /\ Executes(c, command)
           /\ command.channel \in DOMAIN conn[c].subscriptions
           /\ command.channel \in DOMAIN RegistryOf(conn[c].client_id)
           /\ conn[c].subscriptions[command.channel].subscribe_to_self
                 = command.subscribe_to_self
           /\ RegistryOf(conn[c].client_id)[command.channel].subscribe_to_self
                 = command.subscribe_to_self)
          => /\ conn'[c].subscriptions = conn[c].subscriptions
             /\ subscriptions' = subscriptions]_vars
\* Reached: a connection has executed the same SubscribeBroadcast twice in a
\* row and its cache and Registry entry hold the channel with those options.
SubscribedTwice ==
    \E c \in Conns :
        /\ Len(executed[c]) = 2
        /\ executed[c][1] = executed[c][2]
        /\ executed[c][1].type = "subscribe_broadcast"
        /\ executed[c][1].subscribe_to_self
        /\ conn[c].subscriptions = [room |-> [subscribe_to_self |-> TRUE]]
        /\ RegistryOf(conn[c].client_id) = conn[c].subscriptions

\* ------------------------------------------------------------------------
\* The table under concurrent Sets, Gets and reaper passes
\* ------------------------------------------------------------------------
\* C24: the insert of a Set puts the data and the expiry of its value in the
\* table in one step, keeping nothing of the entry it replaces and touching
\* no other key; a Get, also one between the Set's first read and its
\* insert, returns nothing or the whole value of the last completed insert,
\* and what a reaper pass removes is such a whole value.
AtomicReplace ==
    /\ [][\A s \in Setters :
            (setter[s].pc = "insert" /\ setter'[s].pc # "insert") =>
               /\ setter[s].key \in DOMAIN data'
               /\ data'[setter[s].key].data = setter[s].value.data
               /\ data'[setter[s].key].expiry = setter[s].value.expiry
               /\ \A k \in DOMAIN data \ {setter[s].key} :
                     k \in DOMAIN data' /\ data'[k] = data[k]]_vars
    /\ [](\A g \in got : g.res = {} \/ g.res = {written[g.key]})
    /\ [](\A r \in reaped : r.value = written[r.key])
\* Reached: a Get of a key holding v1 while a Set of the same key with other
\* data and no expiry has read next_expiration and not yet inserted.
GetDuringSet ==
    \E s \in Setters : \E g \in got :
        /\ setter[s].pc = "insert" /\ setter[s].key = g.key
        /\ g.key \in DOMAIN written
        /\ g.res = {written[g.key]}
        /\ written[g.key].data # setter[s].value.data
        /\ written[g.key].expiry # NoExpiry
        /\ setter[s].value.expiry = NoExpiry

\* C25: a SetString with a TTL of s seconds stores the expiry now + s, now
\* being the clock when the command is executed; without TTL, and when
\* now + s is past the last representable instant, it stores no expiry,
\* never a wrapped instant; in every case the Set is done and Status(Ok) is
\* the reply.
ExpiryComputed ==
    [][\A c \in Conns : \A s \in {NoExpiry} \cup (0..(MaxInstant + 1)) :
        \A k \in Keys : \A v \in DataValues :
          Executes(c, [type |-> "set_string", key |-> k, value |-> v, expiration |-> s])
          => /\ k \in DOMAIN data' /\ data'[k].data = v
             /\ data'[k].expiry = IF s = NoExpiry THEN NoExpiry
                                  ELSE IF now + s <= MaxInstant THEN now + s
                                  ELSE NoExpiry
             /\ out'[c] = out[c] \o <<StatusFrame(StatusOk)>>]_vars
\* Reached: at time 1 the connection has set the key with a TTL that passes
\* the last instant, got Status(Ok), and the entry has no expiry.
OverflowingTtlStored ==
    \E c \in Conns :
        /\ now = 1
        /\ executed[c] = <<[type |-> "set_string", key |-> "k1", value |-> "a",
                            expiration |-> MaxInstant]>>
        /\ "k1" \in DOMAIN data /\ data["k1"].expiry = NoExpiry
        /\ out[c] = <<PingFrame, ClientIdFrame(conn[c].client_id), StatusFrame(StatusOk)>>

Completed(json) ==
    IF json.tag = "subscribe_broadcast" /\ "subscribe_to_self" \notin DOMAIN json.body
    THEN [json EXCEPT !.body = [channel |-> json.body.channel, subscribe_to_self |-> FALSE]]
    ELSE IF json.tag \in {"set_string", "set_json"} /\ "expiration" \notin DOMAIN json.body
    THEN [json EXCEPT !.body = [key |-> json.body.key, value |-> json.body.value,
                                expiration |-> Null]]
    ELSE json

Fails(a) ==
    \/ Len(status_rx'[a]) > Len(status_rx[a])
    \/ conn'[a].sink # conn[a].sink
    \/ conn'[a].send_error /\ ~conn[a].send_error
    \/ conn'[a].send_task = "done" /\ conn[a].send_task # "done"
    \/ conn'[a].receive_task = "done" /\ conn[a].receive_task # "done"
    \/ conn'[a].state = "closed" /\ conn[a].state # "closed"

\* C27: a decode error, a transport error or the end or abort of the tasks
\* of one connection leaves every other connection as it was: its cache, its
\* command and status channels, its position in the broadcast channel and
\* the backlog behind it, its tasks and its lifecycle state.
ConnectionIsolation ==
    [][\A a \in Conns : \A b \in Conns \ {a} :
          Fails(a) => /\ conn'[b] = conn[b]
                      /\ command_rx'[b] = command_rx[b]
                      /\ status_rx'[b] = status_rx[b]
                      /\ broadcast_channel' = broadcast_channel
                      /\ out'[b] = out[b]]_vars
\* Reached: one connection is closed after a failed send while the other,
\* subscribed to a room, is still running.
OneDownOneUp ==
    \E a \in Conns : \E b \in Conns \ {a} :
        /\ conn[a].state = "closed" /\ conn[a].sink # "ok"
        /\ Running(b) /\ "room" \in DOMAIN conn[b].subscriptions

\* ------------------------------------------------------------------------
\* The reaper's passes and its wake signal
\* ------------------------------------------------------------------------
\* C28: a reaper pass that reads the time now removes every entry whose
\* expiry is at or before now, the entry expiring exactly now included:
\* after the pass no entry with an expiry <= now is in the table.
PassRemovesUpToNow ==
    [][(reaper.pc = "remove" /\ reaper'.pc = "next") =>
          \A k \in DOMAIN data' :
              data'[k].expiry = NoExpiry \/ data'[k].expiry > now]_vars

\* C29: a Set posts the wake signal iff its value has an expiry and, in the
\* table it inserts into, no entry has an expiry or the earliest one is
\* strictly later than the new expiry; this also when reaper passes or other
\* Sets ran after the Set read the earliest expiry.
WakeDecision ==
    [][\A s \in Setters :
          (setter[s].pc = "insert" /\ setter'[s].pc # "insert") =>
             LET expiry == setter[s].value.expiry
                 next == next_expiration(data)
             IN  (setter'[s].pc = "notify")
                    <=> (expiry # NoExpiry /\ (next = NoExpiry \/ expiry < next))]_vars

\* The reaper is in one of its waits.
Waiting == reaper.pc \in {"sleep", "notified"}

\* C30: the wake signal holds one pending notification at most: a wake
\* posted while one is pending leaves one pending; a pending wake lets the
\* reaper's wait return at once; the wait that takes it starts a new cycle,
\* and the cycle computes next from the table as it is then, so that the
\* reaper waits no longer than the earliest expiry of the entries inserted
\* before the wake.
WakeCoalesced ==
    /\ [](background_task \in BOOLEAN)
    /\ []((Waiting /\ background_task) => ENABLED ReaperNotified)
    /\ [][\A s \in Setters :
            (setter[s].pc = "notify" /\ setter'[s].pc # "notify") => background_task']_vars
    /\ [][(background_task /\ ~background_task') =>
            (Waiting /\ reaper'.pc = "remove")]_vars
    /\ [][(reaper.pc = "next" /\ reaper'.pc # "next") =>
            IF next_expiration(data) = NoExpiry
            THEN reaper'.pc = "notified"
            ELSE /\ reaper'.pc = "sleep"
                 /\ reaper'.next = next_expiration(data)
                 /\ \A k \in DOMAIN data :
                       data[k].expiry # NoExpiry => reaper'.next <= data[k].expiry]_vars
\* Reached: a wake is pending, the reaper is in a pass and not waiting, and a
\* Set that has inserted its entry is about to post a second wake.
SecondWakeDuringPass ==
    \E s \in Setters :
        /\ background_task
        /\ reaper.pc \in {"remove", "next"}
        /\ setter[s].pc = "notify"
        /\ next_expiration(data) # NoExpiry

\* C31: an entry set with an expiry already in the past is in the table when
\* the Set returns and the reaper comes to remove it: the reaper is never
\* left blocked on the wake signal alone, with no wake pending and no Set in
\* flight, while the table holds an entry whose expiry is in the past.
PastExpiryReaped ==
    ~ ( /\ reaper.pc = "notified"
        /\ ~background_task
        /\ Quiet
        /\ \E k \in DOMAIN data :
              data[k].expiry # NoExpiry /\ data[k].expiry < now )

\* C32: the duration a reaper pass returns is max(0, next - now), with now the
\* clock value the pass read and next the earliest expiry it finds after the
\* removal: never negative, and zero rather than the magnitude of the
\* difference when next is before now.
SleepNeverNegative ==
    [][(reaper.pc = "next" /\ reaper'.pc = "sleep") =>
          LET duration == reaper'.until - now
          IN  /\ duration >= 0
              /\ reaper'.next >= reaper.now => duration = reaper'.next - reaper.now
              /\ reaper'.next < reaper.now => duration = 0]_vars

\* Between the removal and the recomputation of a pass a Set has inserted an
\* expiry earlier than the clock value the pass read.
EarlierExpiryInsertedMidPass ==
    /\ reaper.pc = "next"
    /\ setter["s1"].pc = "notify"
    /\ next_expiration(data) # NoExpiry
    /\ next_expiration(data) < reaper.now

\* C33: a reaper pass returns no duration iff no entry of the table it reads
\* after the removal has an expiry; the reaper then blocks on the wake signal
\* only: it removes nothing and leaves the wait only by taking a posted wake.
\* Otherwise it waits for the timer or the wake signal, whichever comes
\* first: it leaves the wait only on one of them, and each of them lets it
\* leave.
PassResultAndWait ==
    /\ [][ /\ (reaper.pc = "next" /\ reaper' # reaper) =>
                 /\ reaper'.pc \in {"notified", "sleep"}
                 /\ (reaper'.pc = "notified") <=>
                        (\A k \in DOMAIN data : data[k].expiry = NoExpiry)
           /\ reaper.pc = "notified" =>
                 /\ DOMAIN data \subseteq DOMAIN data'
                 /\ reaper' # reaper =>
                        background_task /\ ~background_task' /\ reaper'.pc = "remove"
           /\ reaper.pc = "sleep" =>
                 /\ DOMAIN data \subseteq DOMAIN data'
                 /\ reaper' # reaper =>
                        /\ reaper'.pc = "remove"
                        /\ \/ background_task /\ ~background_task'
                           \/ now >= reaper.until /\ background_task' = background_task
         ]_vars
    /\ [](reaper.pc = "sleep" /\ now >= reaper.until => ENABLED ReaperTimer)
    /\ [](reaper.pc \in {"sleep", "notified"} /\ background_task => ENABLED ReaperNotified)
    /\ [](reaper.pc = "notified" => ~ENABLED ReaperTimer)

\* The reaper is blocked on the wake signal alone, beside a table that holds
\* entries, none with an expiry, at the last instant of the clock and with no
\* wake posted.
BlockedOnWakeOnly ==
    /\ reaper.pc = "notified"
    /\ ~background_task
    /\ now = MaxTime
    /\ DOMAIN data # {}
    /\ \A k \in DOMAIN data : data[k].expiry = NoExpiry

\* C34: a connection whose reader has ended (end of the stream, a receive
\* error or a Close frame) eventually is closed with both of its tasks
\* finished or aborted, whatever the writer is doing at that moment.
ReaderEndClosesConnection ==
    \A c \in SessionConns :
        (Spawned(c) /\ conn[c].receive_task = "done")
            ~> (conn[c].state = "closed" /\ conn[c].receive_task = "done"
                                        /\ conn[c].send_task = "done")

\* A connection is closed with both tasks ended although its writer never
\* finished by itself (no failed send, no Close frame written) and commands
\* it was sent were never executed.
ClosedOverQueuedCommands ==
    \E c \in SessionConns :
        /\ conn[c].state = "closed"
        /\ conn[c].receive_task = "done" /\ conn[c].send_task = "done"
        /\ conn[c].sink = "ok" /\ ~conn[c].goodbye
        /\ Len(executed[c]) < Len(received[c])

\* C35: an inbound Ping or Pong frame changes no state: the reader puts
\* nothing on the command or the status channel and goes on reading, and the
\* tables, the Registry, the connection's cache and the frames written to
\* the client are as before.
PingPongInert ==
    [][\A c \in SessionConns, kind \in ControlKinds :
          ReaderControl(c, kind, MaxFrames) =>
              /\ command_rx' = command_rx /\ status_rx' = status_rx
              /\ received' = received
              /\ conn'[c].receive_task = "read"
              /\ conn' = conn
              /\ data' = data /\ subscriptions' = subscriptions
              /\ broadcast_channel' = broadcast_channel
              /\ out' = out]_vars

\* The reader has read one frame, a Ping or a Pong: it still reads, both
\* channels are empty, nothing was executed and the client was written the
\* handshake only.
PingReadNothingQueued ==
    \E c \in SessionConns :
        /\ conn[c].state = "open" /\ conn[c].sink = "ok"
        /\ conn[c].send_task = "select" /\ conn[c].receive_task = "read"
        /\ frames = 1
        /\ command_rx[c] = <<>> /\ status_rx[c] = <<>>
        /\ received[c] = <<>> /\ executed[c] = <<>>
        /\ Len(out[c]) = 2

\* C36: executing a SendBroadcast never blocks or fails the writer: the
\* command is executed whenever it is at the head of the writer's queue,
\* whatever the backlog of the receivers; the bus then has at least one
\* receiver, the writer's own, so the envelope is stored; no frame is written
\* to the client and the writer stays in its select loop.
PublishNeverFails ==
    /\ [][\A c \in Conns, command \in Commands :
            (command.type = "send_broadcast" /\ Executes(c, command)) =>
                /\ c \in receivers
                /\ Len(broadcast_channel') = Len(broadcast_channel) + 1
                /\ broadcast_channel'[Len(broadcast_channel')].message = command.message
                /\ out' = out /\ status_rx' = status_rx
                /\ conn'[c].send_task = "select"]_vars
    /\ [](\A c \in Conns :
            (/\ Selecting(c)
             /\ command_rx[c] # <<>>
             /\ Head(command_rx[c]).type = "send_broadcast") => ENABLED WriterCommand(c))

\* A connection whose handler has returned, and whose aborted writer is not
\* dropped yet, has published while it held the only receiver of the bus.
PublishedByLastReceiver ==
    \E c \in Conns :
        /\ conn[c].state = "closed" /\ conn[c].send_task = "select"
        /\ receivers = {c}
        /\ published # <<>>
        /\ published[Len(published)].by = c
        /\ published[Len(published)].within = {}

\* The positions in the frames written to connection c's client that hold a
\* forwarded envelope.
ForwardedAt(c) == {p \in 1..Len(out[c]) : out[c][p].type = "broadcast_message"}

\* C37: the envelopes a connection forwards to its client appear in the order
\* of their publication on the bus, so two connections forward two envelopes
\* in the same relative order; and the envelopes of one sender are published,
\* and so forwarded by every receiver, in the order the sender's client sent
\* them (an envelope's message is the number of the inbound frame it came in).
BusOrderShared ==
    /\ \A c \in Conns : \A p, q \in ForwardedAt(c) :
          p < q =>
            \E i, j \in 1..Len(broadcast_channel) :
                /\ i < j
                /\ BroadcastFrame(broadcast_channel[i]) = out[c][p]
                /\ BroadcastFrame(broadcast_channel[j]) = out[c][q]
    /\ \A i, j \in 1..Len(broadcast_channel) :
          (i < j /\ published[i].by = published[j].by) =>
              broadcast_channel[i].message < broadcast_channel[j].message
    /\ \A c \in Conns : \A p, q \in ForwardedAt(c) :
          (p < q /\ out[c][p].client_id = out[c][q].client_id
                 /\ \E i, j \in 1..Len(published) :
                        /\ published[i].by = published[j].by
                        /\ BroadcastFrame(broadcast_channel[i]) = out[c][p]
                        /\ BroadcastFrame(broadcast_channel[j]) = out[c][q]) =>
              out[c][p].message < out[c][q].message

\* Both connections have forwarded the same two envelopes of one sender.
TwoForwardedByBoth ==
    \E i, j \in 1..Len(broadcast_channel) :
        /\ i < j
        /\ published[i].by = published[j].by
        /\ \A c \in Conns : Forwarded(c, i) /\ Forwarded(c, j)

\* C38: the envelope a SendBroadcast puts on the bus carries the client
\* identifier of the connection whose writer executes the command, and the
\* channel and the message of the command; every envelope on the bus carries
\* the identifier of the connection that published it.
SenderIdentity ==
    /\ [][\A c \in Conns, command \in Commands :
            (command.type = "send_broadcast" /\ Executes(c, command)) =>
                broadcast_channel' =
                    Append(broadcast_channel,
                           [client_id |-> conn[c].client_id,
                            channel |-> command.channel,
                            message |-> command.message])]_vars
    /\ [](\A i \in 1..Len(broadcast_channel) :
            IF i <= Len(published)
            THEN broadcast_channel[i].client_id = conn[published[i].by].client_id
            ELSE FALSE)

\* The bus holds envelopes of two connections with different client
\* identifiers.
TwoSendersOnBus ==
    \E i, j \in 1..Len(broadcast_channel) :
        /\ published[i].by # published[j].by
        /\ broadcast_channel[i].client_id # broadcast_channel[j].client_id
        /\ broadcast_channel[i].channel = broadcast_channel[j].channel

\* C39: the string table and the JSON table are independent. A SetString or
\* GetString leaves the JSON table, its wake signal and its reaper as they
\* are, and a SetJson or GetJson leaves the string table, its wake signal and
\* its reaper as they are; a GetString replies with the value of the last
\* SetString of the key or with none, whatever was set in the JSON table. A
\* wake signal is posted only by a Set on its own table, and a step of one
\* table's reaper changes nothing of the other table.
StoreIndependence ==
    /\ [][\A c \in SessionConns, command \in StoreCommands :
            Executes(c, command) =>
                /\ command.type \in {"set_string", "get_string"} => json_db' = json_db
                /\ command.type \in {"set_json", "get_json"} =>
                      /\ data' = data
                      /\ background_task' = background_task
                      /\ reaper' = reaper
                /\ command.type = "get_string" =>
                      \E value \in SUBSET {data[k] : k \in DOMAIN data} :
                          /\ out'[c] = Append(out[c], GetStringFrame(value))
                          /\ \A v \in value :
                                /\ command.key \in DOMAIN written
                                /\ v = written[command.key]
                                /\ v.data \in DataValues]_vars
    /\ [][(~background_task /\ background_task') =>
            \E c \in SessionConns, command \in StoreCommands :
                command.type = "set_string" /\ Executes(c, command)]_vars
    /\ [][(~json_db.background_task /\ json_db'.background_task) =>
            \E c \in SessionConns, command \in StoreCommands :
                command.type = "set_json" /\ Executes(c, command)]_vars
    /\ [][json_db'.reaper # json_db.reaper =>
            data' = data /\ background_task' = background_task /\ reaper' = reaper]_vars
    /\ [][reaper' # reaper => json_db' = json_db]_vars

\* After a SetString and then a SetJson with a TTL of the same key, a
\* GetString was answered with the string value; the JSON table's reaper
\* sleeps until the document expires while the string table's reaper is
\* blocked on its own wake signal, which nobody has posted.
StringReadAfterSetJson ==
    \E c \in SessionConns :
        /\ Len(executed[c]) = 3
        /\ executed[c][1] = [type |-> "set_string", key |-> "k1", value |-> "a",
                             expiration |-> NoExpiry]
        /\ executed[c][2].type = "set_json" /\ executed[c][2].expiration = 1
        /\ executed[c][3] = [type |-> "get_string", key |-> "k1"]
        /\ out[c] # <<>>
        /\ out[c][Len(out[c])] =
              GetStringFrame({[data |-> "a", expiry |-> NoExpiry]})
        /\ "k1" \in DOMAIN json_db.data
        /\ json_db.reaper.pc = "sleep"
        /\ reaper.pc = "notified" /\ ~background_task

====
